---- MODULE Spec2Model ----
(***************************************************************************)
(* torch/distributed/debug.py: every process of a job binds a worker debug *)
(* endpoint and publishes its address in the rendezvous store; the process *)
(* of rank 0 also starts the coordinator-facing server, whose views call   *)
(* fetch_all to post one request to every rank through a thread pool and   *)
(* render the responses rank by rank.                                      *)
(*                                                                         *)
(* Strings are tuples of tokens, so that concatenation is \o and a byte    *)
(* string is a different value from the text it encodes.                   *)
(***************************************************************************)
EXTENDS Integers, Sequences, FiniteSets, TLC

\* ---------------------------------------------------------------- bounds
MaxWorld == 3          \* largest WORLD_SIZE of the job
MaxPort == 2           \* ephemeral ports a host has
MaxRepeats == 1        \* calls of enable_debug_server after a process's first
PoolExtra == 1         \* SpecPool: targets beyond the pool size

\* ------------------------------------------------------------- constants
max_workers == 10

\* SpecPool runs one job of max_workers + PoolExtra ranks.
PoolWorld == max_workers + PoolExtra

Ports == 1 .. MaxPort

VARIABLES
    WORLD_SIZE,      \* int(os.environ["WORLD_SIZE"]), the same in every process
    clients,         \* how many operator requests the scenario admits
    outcomes,        \* what a request to a worker can end with in the scenario
    hung,            \* the ranks whose endpoint never answers a request
    storeUp,         \* the TCPStore at MASTER_ADDR:MASTER_PORT can be reached
    environ,         \* per rank: os.environ of the process, variable by variable
    registry,        \* per rank: the handler names registered in the process
    store,           \* the TCPStore: a function from the keys present to bytes
    ppc,             \* per rank: position of the process in enable_debug_server
    ncalls,          \* per rank: calls of enable_debug_server started
    _worker_server,  \* per rank: the global _WorkerServer, <<>> while unset
    _p,              \* per rank: coordinator processes started
    bound,           \* per rank: the ports its _WorkerServer objects bound, in order
    published,       \* per rank: the addresses it has passed to store.set, in order
    fpc,             \* per call: position of the request in a view / fetch_all
    view,            \* per call: the route requested
    addrs,           \* per call: the list addrs of fetch_all
    fs,              \* per call: the futures of executor.map, in submission order
    overtaken,       \* per call: some request completed before a lower-ranked one
    emitted          \* per call: what generate() has yielded, one entry per rank

procVars == <<store, ppc, ncalls, _worker_server, _p, bound, published, registry>>
callVars == <<fpc, view, addrs, fs, overtaken, emitted>>
envVars == <<WORLD_SIZE, clients, outcomes, hung, storeUp, environ>>
vars == <<WORLD_SIZE, clients, outcomes, hung, storeUp, environ, registry, store,
          ppc, ncalls, _worker_server, _p, bound, published,
          fpc, view, addrs, fs, overtaken, emitted>>

\* The ranks of the job, and the operator requests of the scenario.
Ranks == 0 .. (WORLD_SIZE - 1)

Calls == 1 .. clients

\* ------------------------------------------------- module initialisation
\* The variables the module reads from os.environ, in the order read, and
\* what a process can find for one: a value int() accepts ("valid"; for
\* MASTER_ADDR any string), a value int() rejects, or nothing.
EnvNames == <<"MASTER_ADDR", "MASTER_PORT", "RANK", "WORLD_SIZE">>

\* os.environ[name] with int() around it for all but MASTER_ADDR.
ReadsInt(name) == name # "MASTER_ADDR"

GoodEnv == [i \in 1 .. Len(EnvNames) |-> "valid"]

\* The environments with one variable missing or not an integer.
BadEnvs ==
    {[GoodEnv EXCEPT ![i] = "missing"] : i \in 1 .. Len(EnvNames)} \cup
    {[GoodEnv EXCEPT ![i] = "malformed"] :
        i \in {j \in 1 .. Len(EnvNames) : ReadsInt(EnvNames[j])}}

\* An environment that only has to hold the four variables.
EnvLoadsUnparsed(e) == \A i \in 1 .. Len(EnvNames) : e[i] # "missing"

\* Lines 37-40 run to the end: os.environ[...] finds every variable and
\* int() accepts the three it is applied to.
EnvLoads(e) == \A i \in 1 .. Len(EnvNames) : e[i] = "valid"

\* A module that registers no handler when imported.
RegisterNothing(reg) == reg

\* _register_handler("torch_profile", _torch_profile)
RegisterHandlers(reg) == reg \cup {"torch_profile"}

Last(q) == q[Len(q)]

\* ------------------------------------------------------ strings and bytes
\* str.encode() as done by store.set on a str value, and bytes.decode().
Encode(s) == [bytes |-> s]

Decode(b) == b.bytes

\* socket.gethostname() in the process of rank r.
gethostname(r) == <<"node", r>>

\* f"http://{socket.gethostname()}:{_worker_server.port}"
WorkerAddress(r, port) == <<"http://">> \o gethostname(r) \o <<":", port>>

\* A client without the PrefixStore wrapper: keys go to the store as given.
PrefixKeyNone(key) == key

\* ------------------------------------------------------------- the store
\* dist.PrefixStore("debug_server", store): the key the TCPStore sees.
PrefixKey(key) == <<"debug_server", "/">> \o key

\* f"rank{r}"
RankKey(r) == <<"rank", r>>

\* store.set(key, value) through the prefix store: the value replaces any
\* value the key had.
StoreSet(s, key, value) ==
    [k \in DOMAIN s \cup {PrefixKey(key)} |->
        IF k = PrefixKey(key) THEN Encode(value) ELSE s[k]]

\* store.multi_get(keys) returns only once every key is present ...
MultiGetReady(s, keys) ==
    \A i \in 1 .. Len(keys) : PrefixKey(keys[i]) \in DOMAIN s

\* ... and then yields the values in the order of the keys.
MultiGet(s, keys) == [i \in 1 .. Len(keys) |-> s[PrefixKey(keys[i])]]

\* ------------------------------------------------- enable_debug_server
RECURSIVE Sum(_, _)
Sum(f, S) == IF S = {} THEN 0 ELSE LET x == CHOOSE y \in S : TRUE
                                   IN f[x] + Sum(f, S \ {x})

\* Calls of enable_debug_server made in the job by processes that had
\* called it before.
Repeats(n) == Sum([r \in Ranks |-> IF n[r] > 1 THEN n[r] - 1 ELSE 0], Ranks)

\* The process may call enable_debug_server: nothing in the function keeps
\* a process from calling it again.
CanCall(r) ==
    /\ ppc[r] = "ready"
    /\ ncalls[r] = 0 \/ Repeats(ncalls) < MaxRepeats

\* A _WorkerServer object that has bound the port.
WorkerServer(port) == <<port>>

\* The port asked of the constructor instead of the port it bound.
ServerPortRequested(server) == 0

\* _worker_server.port
ServerPort(server) == server[1]

\* The port the system hands to a server asking for port 0. The process's
\* live server still holds its own port, so the new port differs from it;
\* which free port it is decides nothing else, and the lowest one stands
\* for all of them.
FreePort(server) ==
    LET free == Ports \ {server[i] : i \in 1 .. Len(server)}
    IN CHOOSE p \in free : \A q \in free : p <= q

\* The call starts: store = _tcpstore_client() connects the client, then
\* _worker_server = _WorkerServer("::", 0): the constructor binds a port and
\* the global is rebound to the new server.
BindOk(r) ==
    /\ CanCall(r)
    /\ storeUp
    /\ ncalls' = [ncalls EXCEPT ![r] = @ + 1]
    /\ LET port == FreePort(_worker_server[r]) IN
        /\ _worker_server' = [_worker_server EXCEPT ![r] = WorkerServer(port)]
        /\ bound' = [bound EXCEPT ![r] = Append(@, port)]
    /\ ppc' = [ppc EXCEPT ![r] = "bound"]
    /\ UNCHANGED <<store, _p, published>>
    /\ UNCHANGED <<envVars, registry, callVars>>

\* The call starts, the client connects and the constructor raises: the call
\* ends there with the exception and the global keeps its value.
BindFail(r) ==
    /\ CanCall(r)
    /\ storeUp
    /\ ncalls' = [ncalls EXCEPT ![r] = @ + 1]
    /\ UNCHANGED <<store, ppc, _worker_server, _p, bound, published>>
    /\ UNCHANGED <<envVars, registry, callVars>>

\* A function that creates the server before the store client: the call
\* fails at the client with the endpoint already bound.
ConnectFailAfterBind(r) ==
    /\ CanCall(r)
    /\ ~storeUp
    /\ ncalls' = [ncalls EXCEPT ![r] = @ + 1]
    /\ LET port == FreePort(_worker_server[r]) IN
        /\ _worker_server' = [_worker_server EXCEPT ![r] = WorkerServer(port)]
        /\ bound' = [bound EXCEPT ![r] = Append(@, port)]
    /\ UNCHANGED <<store, ppc, _p, published>>
    /\ UNCHANGED <<envVars, registry, callVars>>

\* The call starts and store = _tcpstore_client() raises, the store being
\* unreachable: the call ends at its first statement.
ConnectFail(r) ==
    /\ CanCall(r)
    /\ ~storeUp
    /\ ncalls' = [ncalls EXCEPT ![r] = @ + 1]
    /\ UNCHANGED <<store, ppc, _worker_server, _p, bound, published>>
    /\ UNCHANGED <<envVars, registry, callVars>>

\* store.set raises, the store having become unreachable after the client
\* connected: the call ends there, its server bound.
SetFail(r) ==
    /\ ppc[r] = "bound"
    /\ ~storeUp
    /\ ppc' = [ppc EXCEPT ![r] = "ready"]
    /\ UNCHANGED <<store, ncalls, _worker_server, _p, bound, published>>
    /\ UNCHANGED <<envVars, registry, callVars>>

\* The store becomes unreachable.
StoreDown ==
    /\ storeUp
    /\ storeUp' = FALSE
    /\ UNCHANGED <<WORLD_SIZE, clients, outcomes, hung, environ>>
    /\ UNCHANGED <<procVars, callVars>>

\* A function without the RANK == 0 test: every process goes on to start
\* the coordinator.
AfterSetAll(r) == "published"

\* The position after store.set: only rank 0 has a statement left.
AfterSet(r) == IF r = 0 THEN "published" ELSE "ready"

\* store.set(f"rank{RANK}", f"http://{hostname}:{_worker_server.port}")
Publish(r) ==
    /\ ppc[r] = "bound"
    /\ storeUp
    /\ LET address == WorkerAddress(r, ServerPort(_worker_server[r])) IN
        /\ store' = StoreSet(store, RankKey(r), address)
        /\ published' = [published EXCEPT ![r] = Append(@, address)]
    /\ ppc' = [ppc EXCEPT ![r] = AfterSet(r)]
    /\ UNCHANGED <<ncalls, _worker_server, _p, bound>>
    /\ UNCHANGED <<envVars, registry, callVars>>

\* if RANK == 0: _p = multiprocessing.Process(...); _p.start()
StartCoordinator(r) ==
    /\ ppc[r] = "published"
    /\ _p' = [_p EXCEPT ![r] = @ + 1]
    /\ ppc' = [ppc EXCEPT ![r] = "ready"]
    /\ UNCHANGED <<store, ncalls, _worker_server, bound, published>>
    /\ UNCHANGED <<envVars, registry, callVars>>

\* ------------------------------------------------------------ responses
\* What requests.post returns, and what it raises on a transport failure.
Response(status_code, text) ==
    [kind |-> "Response", status_code |-> status_code, text |-> text]

ConnectionError == [kind |-> "ConnectionError"]

JsonTexts == {<<"{}">>}

AllOutcomes ==
    {Response(200, <<"{}">>), Response(404, <<"Not Found">>), ConnectionError}

\* ------------------------------------------------------------- fetch_all
Views == {"stacks", "fr_trace", "fr_trace_nccl", "profile"}

\* The endpoint each view passes to fetch_all.
Endpoint(v) ==
    CASE v = "stacks" -> <<"dump_traceback">>
      [] v = "fr_trace" -> <<"fr_trace_json">>
      [] v = "fr_trace_nccl" -> <<"dump_nccl_trace_json", "?onlyactive=true">>
      [] v = "profile" -> <<"torch_profile">>

\* The keys of range(WORLD_SIZE - 1): the last rank is left out.
KeysShort(n) == [i \in 1 .. (n - 1) |-> RankKey(i - 1)]

\* keys = [f"rank{r}" for r in range(WORLD_SIZE)]
Keys(n) == [i \in 1 .. n |-> RankKey(i - 1)]

\* The target without the handler path.
TargetNoPath(addr, endpoint) == Decode(addr) \o endpoint

\* f"{addr.decode()}/handler/{endpoint}"
Target(addr, endpoint) == Decode(addr) \o <<"/handler/">> \o endpoint

\* addrs = [f"{addr.decode()}/handler/{endpoint}" for addr in addrs]
Targets(values, endpoint) ==
    [i \in 1 .. Len(values) |-> Target(values[i], endpoint)]

\* A future of the executor: the call requests.post(url) it wraps, its state,
\* its result (a response or the exception raised) and how often the call ran.
NoResult == [kind |-> "None"]

Future(url) ==
    [url |-> url, state |-> "PENDING", result |-> NoResult, posts |-> 0]

\* executor.map(requests.post, addrs) submits one future per element, in order.
Submit(urls) == [i \in 1 .. Len(urls) |-> Future(urls[i])]

Running(f) == {i \in 1 .. Len(f) : f[i].state = "RUNNING"}

Pending(f) == {i \in 1 .. Len(f) : f[i].state = "PENDING"}

\* A pool that lets one thread more than max_workers run.
ThreadFreeOneMore(f) == Cardinality(Running(f)) <= max_workers

\* One executor at module level, shared by every call of fetch_all: its
\* max_workers threads serve the work items of all of them.
ThreadFreeShared(f) ==
    Sum([c \in Calls |-> Cardinality(Running(fs[c]))], Calls) < max_workers

\* A thread of the pool is free to take a work item: the executor starts at
\* most max_workers threads and each runs one item at a time.
ThreadFree(f) == Cardinality(Running(f)) < max_workers

\* The work queue is first in, first out: the item a free thread takes.
NextItem(f) == CHOOSE i \in Pending(f) : \A j \in Pending(f) : i <= j

\* A pool that drops the queued work items once one item raises.
SetResultCancelling(f, k, outcome) ==
    [i \in 1 .. Len(f) |->
        IF i = k THEN [f[i] EXCEPT !.state = "FINISHED", !.result = outcome]
        ELSE IF outcome.kind # "Response" /\ f[i].state = "PENDING"
             THEN [f[i] EXCEPT !.state = "CANCELLED"]
             ELSE f[i]]

\* A work item ends: its future holds the response or the exception, and the
\* thread goes on with the queue whatever the item ended with.
SetResult(f, k, outcome) ==
    [f EXCEPT ![k] = [@ EXCEPT !.state = "FINISHED", !.result = outcome]]

\* executor.shutdown(wait=False): it returns at once.
ShutdownNoWait(f) == TRUE

\* Leaving the with block is executor.shutdown(wait=True): it returns once no
\* work item is queued or running.
ShutdownReturns(f) ==
    \A i \in 1 .. Len(f) : f[i].state \in {"FINISHED", "CANCELLED"}

\* An iterator that hands the futures out last submitted first.
ResultAtReversed(f, i) == f[Len(f) + 1 - i]

\* The i-th value the iterator resps hands out is the result of the i-th
\* future submitted.
ResultAt(f, i) == f[i]

\* A view is requested: fetch_all starts and connects its store client.
Request(c, v) ==
    /\ fpc[c] = "idle"
    /\ _p[0] > 0
    /\ storeUp
    /\ view' = [view EXCEPT ![c] = v]
    /\ fpc' = [fpc EXCEPT ![c] = "resolve"]
    /\ UNCHANGED <<addrs, fs, overtaken, emitted>>
    /\ UNCHANGED <<envVars, procVars>>

\* A view is requested and _tcpstore_client() raises in fetch_all.
RequestFail(c, v) ==
    /\ fpc[c] = "idle"
    /\ _p[0] > 0
    /\ ~storeUp
    /\ view' = [view EXCEPT ![c] = v]
    /\ fpc' = [fpc EXCEPT ![c] = "failed"]
    /\ UNCHANGED <<addrs, fs, overtaken, emitted>>
    /\ UNCHANGED <<envVars, procVars>>

\* multi_get raises, the store having become unreachable.
ResolveFail(c) ==
    /\ fpc[c] = "resolve"
    /\ ~storeUp
    /\ fpc' = [fpc EXCEPT ![c] = "failed"]
    /\ UNCHANGED <<view, addrs, fs, overtaken, emitted>>
    /\ UNCHANGED <<envVars, procVars>>

\* A multi_get that gives up with an error while a key is missing.
ResolveTimesOut(c) ==
    /\ fpc[c] = "resolve"
    /\ storeUp
    /\ IF MultiGetReady(store, Keys(WORLD_SIZE))
       THEN LET urls == Targets(MultiGet(store, Keys(WORLD_SIZE)), Endpoint(view[c])) IN
            /\ addrs' = [addrs EXCEPT ![c] = urls]
            /\ fs' = [fs EXCEPT ![c] = Submit(urls)]
            /\ fpc' = [fpc EXCEPT ![c] = "pool"]
       ELSE /\ fpc' = [fpc EXCEPT ![c] = "failed"]
            /\ UNCHANGED <<addrs, fs>>
    /\ UNCHANGED <<view, overtaken, emitted>>
    /\ UNCHANGED <<envVars, procVars>>

\* multi_get returns, the targets are built, the pool is created and map
\* submits every request.
Resolve(c) ==
    /\ fpc[c] = "resolve"
    /\ storeUp
    /\ MultiGetReady(store, Keys(WORLD_SIZE))
    /\ LET urls == Targets(MultiGet(store, Keys(WORLD_SIZE)), Endpoint(view[c])) IN
        /\ addrs' = [addrs EXCEPT ![c] = urls]
        /\ fs' = [fs EXCEPT ![c] = Submit(urls)]
    /\ fpc' = [fpc EXCEPT ![c] = "pool"]
    /\ UNCHANGED <<view, overtaken, emitted>>
    /\ UNCHANGED <<envVars, procVars>>

\* A pool thread takes the next work item and calls requests.post(url).
Dequeue(c) ==
    /\ fpc[c] = "pool"
    /\ Pending(fs[c]) # {}
    /\ ThreadFree(fs[c])
    /\ LET k == NextItem(fs[c]) IN
        fs' = [fs EXCEPT ![c][k] =
                  [@ EXCEPT !.state = "RUNNING", !.posts = @ + 1]]
    /\ UNCHANGED <<fpc, view, addrs, overtaken, emitted>>
    /\ UNCHANGED <<envVars, procVars>>

\* requests.post returns a response or raises; it has no timeout, so a
\* request to an endpoint that never answers stays in flight.
Complete(c, k) ==
    /\ fpc[c] = "pool"
    /\ k \in Running(fs[c])
    /\ (k - 1) \notin hung
    /\ \E outcome \in outcomes :
        fs' = [fs EXCEPT ![c] = SetResult(@, k, outcome)]
    /\ overtaken' = [overtaken EXCEPT ![c] =
            @ \/ \E j \in 1 .. (k - 1) : fs[c][j].state # "FINISHED"]
    /\ UNCHANGED <<fpc, view, addrs, emitted>>
    /\ UNCHANGED <<envVars, procVars>>

\* The with block is left and fetch_all returns addrs, resps to the view,
\* which returns generate() to be iterated.
Join(c) ==
    /\ fpc[c] = "pool"
    /\ ShutdownReturns(fs[c])
    /\ fpc' = [fpc EXCEPT ![c] = "render"]
    /\ UNCHANGED <<view, addrs, fs, overtaken, emitted>>
    /\ UNCHANGED <<envVars, procVars>>

\* ------------------------------------------------------------ generate()
NoText == <<>>

\* format_json: json.loads raises on a text that is not JSON.
JsonLoads(text) == text \in JsonTexts

format_json(text) == <<"indent=2">> \o text

\* The views whose generate() passes resp.text through format_json.
JsonViews == {"fr_trace", "fr_trace_nccl"}

\* What one round of the loop yields for rank i with response resp: the
\* heading, the failure line when status_code != 200, and the text.
Entry(v, i, addr, resp) ==
    [rank |-> i,
     addr |-> addr,
     failed |-> IF resp.status_code # 200 THEN <<resp.status_code>> ELSE <<>>,
     text |-> IF v \in JsonViews
              THEN (IF JsonLoads(resp.text) THEN format_json(resp.text) ELSE NoText)
              ELSE resp.text]

\* A round that also raises on a status other than 200.
RoundRaisesForStatus(v, future) ==
    \/ future.state = "CANCELLED"
    \/ future.result.kind # "Response"
    \/ future.result.status_code # 200
    \/ v \in JsonViews /\ ~JsonLoads(future.result.text)

\* The round raises: next(resps) re-raises the exception of the future, or
\* format_json fails.
RoundRaises(v, future) ==
    \/ future.state = "CANCELLED"
    \/ future.result.kind # "Response"
    \/ v \in JsonViews /\ ~JsonLoads(future.result.text)

\* One round of "for i, addr, resp in zip(range(len(addrs)), addrs, resps)".
RenderRank(c) ==
    /\ fpc[c] = "render"
    /\ Len(emitted[c]) < Len(addrs[c])
    /\ LET i == Len(emitted[c])
           future == ResultAt(fs[c], i + 1)
       IN
        /\ future.state \in {"FINISHED", "CANCELLED"}
        /\ emitted' = [emitted EXCEPT ![c] =
                IF future.state = "FINISHED" /\ future.result.kind = "Response"
                THEN Append(@, Entry(view[c], i, addrs[c][i + 1], future.result))
                ELSE @]
        /\ fpc' = [fpc EXCEPT ![c] =
                IF RoundRaises(view[c], future) THEN "raised" ELSE "render"]
    /\ UNCHANGED <<view, addrs, fs, overtaken>>
    /\ UNCHANGED <<envVars, procVars>>

\* range(len(addrs)) is exhausted: the response is complete.
RenderEnd(c) ==
    /\ fpc[c] = "render"
    /\ Len(emitted[c]) = Len(addrs[c])
    /\ fpc' = [fpc EXCEPT ![c] = "done"]
    /\ UNCHANGED <<view, addrs, fs, overtaken, emitted>>
    /\ UNCHANGED <<envVars, procVars>>

\* ------------------------------------------------------- specifications
InitCalls ==
    /\ fpc = [c \in Calls |-> "idle"]
    /\ view = [c \in Calls |-> "stacks"]
    /\ addrs = [c \in Calls |-> <<>>]
    /\ fs = [c \in Calls |-> <<>>]
    /\ overtaken = [c \in Calls |-> FALSE]
    /\ emitted = [c \in Calls |-> <<>>]

\* A job of 1 .. MaxWorld processes that have imported the module, and one
\* operator request; the store stays reachable and every endpoint answers.
Init ==
    /\ WORLD_SIZE \in 1 .. MaxWorld
    /\ clients = 1
    /\ outcomes = AllOutcomes
    /\ hung = {}
    /\ storeUp = TRUE
    /\ environ = [r \in Ranks |-> GoodEnv]
    /\ registry = [r \in Ranks |-> RegisterHandlers({})]
    /\ store = <<>>
    /\ ppc = [r \in Ranks |-> "ready"]
    /\ ncalls = [r \in Ranks |-> 0]
    /\ _worker_server = [r \in Ranks |-> <<>>]
    /\ _p = [r \in Ranks |-> 0]
    /\ bound = [r \in Ranks |-> <<>>]
    /\ published = [r \in Ranks |-> <<>>]
    /\ InitCalls

Next ==
    \/ \E r \in Ranks : BindOk(r)
    \/ \E r \in Ranks : BindFail(r)
    \/ \E r \in Ranks : Publish(r)
    \/ \E r \in Ranks : StartCoordinator(r)
    \/ \E c \in Calls, v \in Views : Request(c, v)
    \/ \E c \in Calls : Resolve(c)
    \/ \E c \in Calls : Dequeue(c)
    \/ \E c \in Calls : \E k \in 1 .. Len(fs[c]) : Complete(c, k)
    \/ \E c \in Calls : Join(c)
    \/ \E c \in Calls : RenderRank(c)
    \/ \E c \in Calls : RenderEnd(c)

Spec == Init /\ [][Next]_vars

\* A job of max_workers + PoolExtra processes, each after one call of
\* enable_debug_server that bound port 1, whose workers all answer 200.
InitPool ==
    /\ WORLD_SIZE = PoolWorld
    /\ clients = 1
    /\ outcomes = {Response(200, <<"{}">>)}
    /\ hung = {}
    /\ storeUp = TRUE
    /\ environ = [r \in Ranks |-> GoodEnv]
    /\ registry = [r \in Ranks |-> RegisterHandlers({})]
    /\ store = [k \in {PrefixKey(RankKey(r)) : r \in Ranks} |->
                    Encode(WorkerAddress(k[4], 1))]
    /\ ppc = [r \in Ranks |-> "ready"]
    /\ ncalls = [r \in Ranks |-> 1]
    /\ _worker_server = [r \in Ranks |-> WorkerServer(1)]
    /\ _p = [r \in Ranks |-> IF r = 0 THEN 1 ELSE 0]
    /\ bound = [r \in Ranks |-> <<1>>]
    /\ published = [r \in Ranks |-> <<WorkerAddress(r, 1)>>]
    /\ InitCalls

\* The steps of the coordinator's views alone.
NextPool ==
    \/ \E c \in Calls, v \in Views : Request(c, v)
    \/ \E c \in Calls : Resolve(c)
    \/ \E c \in Calls : Dequeue(c)
    \/ \E c \in Calls : \E k \in 1 .. Len(fs[c]) : Complete(c, k)
    \/ \E c \in Calls : Join(c)
    \/ \E c \in Calls : RenderRank(c)
    \/ \E c \in Calls : RenderEnd(c)

SpecPool == InitPool /\ [][NextPool]_vars

\* The job of Init with workers that all answer 200 and a store that can
\* become unreachable at any moment.
InitStore ==
    /\ WORLD_SIZE \in 1 .. MaxWorld
    /\ clients = 1
    /\ outcomes = {Response(200, <<"{}">>)}
    /\ hung = {}
    /\ storeUp = TRUE
    /\ environ = [r \in Ranks |-> GoodEnv]
    /\ registry = [r \in Ranks |-> RegisterHandlers({})]
    /\ store = <<>>
    /\ ppc = [r \in Ranks |-> "ready"]
    /\ ncalls = [r \in Ranks |-> 0]
    /\ _worker_server = [r \in Ranks |-> <<>>]
    /\ _p = [r \in Ranks |-> 0]
    /\ bound = [r \in Ranks |-> <<>>]
    /\ published = [r \in Ranks |-> <<>>]
    /\ InitCalls

NextStore ==
    \/ StoreDown
    \/ \E r \in Ranks : ConnectFail(r)
    \/ \E r \in Ranks : BindOk(r)
    \/ \E r \in Ranks : SetFail(r)
    \/ \E r \in Ranks : Publish(r)
    \/ \E r \in Ranks : StartCoordinator(r)
    \/ \E c \in Calls, v \in Views : RequestFail(c, v)
    \/ \E c \in Calls, v \in Views : Request(c, v)
    \/ \E c \in Calls : ResolveFail(c)
    \/ \E c \in Calls : Resolve(c)
    \/ \E c \in Calls : Dequeue(c)
    \/ \E c \in Calls : \E k \in 1 .. Len(fs[c]) : Complete(c, k)
    \/ \E c \in Calls : Join(c)
    \/ \E c \in Calls : RenderRank(c)
    \/ \E c \in Calls : RenderEnd(c)

SpecStore == InitStore /\ [][NextStore]_vars

\* A key and value another user of the shared store has set: named like a
\* rank key, outside the "debug_server" prefix.
UnrelatedKey == RankKey(0)

UnrelatedValue == Encode(<<"unrelated">>)

\* The job of Init on a store that another user has already written to.
InitShared ==
    /\ WORLD_SIZE \in 1 .. MaxWorld
    /\ clients = 1
    /\ outcomes = AllOutcomes
    /\ hung = {}
    /\ storeUp = TRUE
    /\ environ = [r \in Ranks |-> GoodEnv]
    /\ registry = [r \in Ranks |-> RegisterHandlers({})]
    /\ store = [k \in {UnrelatedKey} |-> UnrelatedValue]
    /\ ppc = [r \in Ranks |-> "ready"]
    /\ ncalls = [r \in Ranks |-> 0]
    /\ _worker_server = [r \in Ranks |-> <<>>]
    /\ _p = [r \in Ranks |-> 0]
    /\ bound = [r \in Ranks |-> <<>>]
    /\ published = [r \in Ranks |-> <<>>]
    /\ InitCalls

SpecShared == InitShared /\ [][Next]_vars

\* ------------------------------------------------- importing the module
\* Line 35, the first module-level statement with an effect: the handler is
\* registered.
ImportRegister(r) ==
    /\ ppc[r] = "new"
    /\ registry' = [registry EXCEPT ![r] = RegisterHandlers(@)]
    /\ ppc' = [ppc EXCEPT ![r] = "registered"]
    /\ UNCHANGED <<store, ncalls, _worker_server, _p, bound, published>>
    /\ UNCHANGED <<envVars, callVars>>

\* Lines 37-40 read the environment: the import ends and
\* enable_debug_server can be called.
ImportOk(r) ==
    /\ ppc[r] = "registered"
    /\ EnvLoads(environ[r])
    /\ ppc' = [ppc EXCEPT ![r] = "ready"]
    /\ UNCHANGED <<store, ncalls, _worker_server, _p, bound, published>>
    /\ UNCHANGED <<envVars, registry, callVars>>

\* os.environ[...] raises KeyError or int() raises ValueError: the import
\* fails and the module's functions do not exist for the process.
ImportFail(r) ==
    /\ ppc[r] = "registered"
    /\ ~EnvLoads(environ[r])
    /\ ppc' = [ppc EXCEPT ![r] = "importfailed"]
    /\ UNCHANGED <<store, ncalls, _worker_server, _p, bound, published>>
    /\ UNCHANGED <<envVars, registry, callVars>>

\* The processes of a job before any has imported the module; at most one
\* of them has an environment with a variable missing or not an integer.
InitImport ==
    /\ WORLD_SIZE \in 1 .. MaxWorld
    /\ clients = 1
    /\ outcomes = {Response(200, <<"{}">>)}
    /\ hung = {}
    /\ storeUp = TRUE
    /\ environ \in [Ranks -> {GoodEnv} \cup BadEnvs]
    /\ Cardinality({r \in Ranks : environ[r] # GoodEnv}) <= 1
    /\ registry = [r \in Ranks |-> {}]
    /\ store = <<>>
    /\ ppc = [r \in Ranks |-> "new"]
    /\ ncalls = [r \in Ranks |-> 0]
    /\ _worker_server = [r \in Ranks |-> <<>>]
    /\ _p = [r \in Ranks |-> 0]
    /\ bound = [r \in Ranks |-> <<>>]
    /\ published = [r \in Ranks |-> <<>>]
    /\ InitCalls

NextImport ==
    \/ \E r \in Ranks : ImportRegister(r)
    \/ \E r \in Ranks : ImportOk(r)
    \/ \E r \in Ranks : ImportFail(r)
    \/ \E r \in Ranks : BindOk(r)
    \/ \E r \in Ranks : BindFail(r)
    \/ \E r \in Ranks : Publish(r)
    \/ \E r \in Ranks : StartCoordinator(r)

SpecImport == InitImport /\ [][NextImport]_vars

\* ----------------------------------------------------- a fan-out, fairly
\* A job of more ranks than the pool has threads. Every rank but the last
\* is through enable_debug_server; the last has bound its endpoint and not
\* yet published it; one operator request is already waiting in
\* multi_get. Either every worker answers, or every connection fails, or
\* the worker of rank 0 never answers at all.
InitLive ==
    /\ WORLD_SIZE = PoolWorld
    /\ clients = 1
    /\ outcomes \in {{Response(200, <<"{}">>)}, {ConnectionError}}
    /\ hung \in {{}, {0}}
    /\ hung # {} => outcomes = {Response(200, <<"{}">>)}
    /\ storeUp = TRUE
    /\ environ = [r \in Ranks |-> GoodEnv]
    /\ registry = [r \in Ranks |-> RegisterHandlers({})]
    /\ store = [k \in {PrefixKey(RankKey(r)) : r \in 0 .. (WORLD_SIZE - 2)} |->
                    Encode(WorkerAddress(k[4], 1))]
    /\ ppc = [r \in Ranks |-> IF r = WORLD_SIZE - 1 THEN "bound" ELSE "ready"]
    /\ ncalls = [r \in Ranks |-> 1]
    /\ _worker_server = [r \in Ranks |-> WorkerServer(1)]
    /\ _p = [r \in Ranks |-> IF r = 0 THEN 1 ELSE 0]
    /\ bound = [r \in Ranks |-> <<1>>]
    /\ published = [r \in Ranks |->
            IF r = WORLD_SIZE - 1 THEN <<>> ELSE <<WorkerAddress(r, 1)>>]
    /\ fpc = [c \in Calls |-> "resolve"]
    /\ view = [c \in Calls |-> "stacks"]
    /\ addrs = [c \in Calls |-> <<>>]
    /\ fs = [c \in Calls |-> <<>>]
    /\ overtaken = [c \in Calls |-> FALSE]
    /\ emitted = [c \in Calls |-> <<>>]

\* The last rank publishes and the request runs up to the return of
\* fetch_all.
NextLive ==
    \/ \E r \in Ranks : Publish(r)
    \/ \E c \in Calls : Resolve(c)
    \/ \E c \in Calls : Dequeue(c)
    \/ \E c \in Calls : \E k \in 1 .. Len(fs[c]) : Complete(c, k)
    \/ \E c \in Calls : Join(c)

\* Whatever can run is scheduled: the process of the last rank, the
\* thread of the view, the threads of the pool; and a request to a worker
\* that answers completes.
SpecLive == InitLive /\ [][NextLive]_vars /\ WF_vars(NextLive)

\* ------------------------------------------------ two fan-outs at once
\* The ranks of the job in which two calls are followed: together they can
\* have more requests in flight than one pool has threads.
TwoWorld == (max_workers \div 2) + PoolExtra

\* Every rank has enabled its debug server; the coordinator, whose server
\* handles each request in a thread of its own, has two operator requests
\* in fetch_all at once, for /stacks and for /fr_trace_nccl.
InitTwo ==
    /\ WORLD_SIZE = TwoWorld
    /\ clients = 2
    /\ outcomes = {Response(200, <<"{}">>)}
    /\ hung = {}
    /\ storeUp = TRUE
    /\ environ = [r \in Ranks |-> GoodEnv]
    /\ registry = [r \in Ranks |-> RegisterHandlers({})]
    /\ store = [k \in {PrefixKey(RankKey(r)) : r \in Ranks} |->
                    Encode(WorkerAddress(k[4], 1))]
    /\ ppc = [r \in Ranks |-> "ready"]
    /\ ncalls = [r \in Ranks |-> 1]
    /\ _worker_server = [r \in Ranks |-> WorkerServer(1)]
    /\ _p = [r \in Ranks |-> IF r = 0 THEN 1 ELSE 0]
    /\ bound = [r \in Ranks |-> <<1>>]
    /\ published = [r \in Ranks |-> <<WorkerAddress(r, 1)>>]
    /\ fpc = [c \in Calls |-> "resolve"]
    /\ view = [c \in Calls |-> IF c = 1 THEN "stacks" ELSE "fr_trace_nccl"]
    /\ addrs = [c \in Calls |-> <<>>]
    /\ fs = [c \in Calls |-> <<>>]
    /\ overtaken = [c \in Calls |-> FALSE]
    /\ emitted = [c \in Calls |-> <<>>]

NextTwo ==
    \/ \E c \in Calls : Resolve(c)
    \/ \E c \in Calls : Dequeue(c)
    \/ \E c \in Calls : \E k \in 1 .. Len(fs[c]) : Complete(c, k)
    \/ \E c \in Calls : Join(c)
    \/ \E c \in Calls : RenderRank(c)
    \/ \E c \in Calls : RenderEnd(c)

SpecTwo == InitTwo /\ [][NextTwo]_vars

\* ----------------------------------------------------------------- claims
\* The calls whose fetch_all has returned to the view.
Returned(c) == fpc[c] \in {"render", "done", "raised"}

\* The value the store holds for rank r.
Stored(r) == store[PrefixKey(RankKey(r))]

HasKey(r) == PrefixKey(RankKey(r)) \in DOMAIN store

\* C1: whatever order the requests complete in, the k-th entry rendered is
\* labelled rank k, shows the k-th target, which names the host of rank k
\* and is the url of the k-th request, and shows the outcome of that
\* request; a round that raises raises at the first rank not yet rendered.
C1_RankOrder ==
    \A c \in Calls : Returned(c) =>
        /\ Len(addrs[c]) = WORLD_SIZE
        /\ Len(emitted[c]) <= WORLD_SIZE
        /\ \A k \in 1 .. WORLD_SIZE :
            /\ SubSeq(addrs[c][k], 2, 3) = gethostname(k - 1)
            /\ fs[c][k].url = addrs[c][k]
        /\ \A k \in 1 .. Len(emitted[c]) :
            /\ emitted[c][k].rank = k - 1
            /\ emitted[c][k].addr = addrs[c][k]
            /\ fs[c][k].result.kind = "Response"
            /\ emitted[c][k].failed =
                   IF fs[c][k].result.status_code # 200
                   THEN <<fs[c][k].result.status_code>> ELSE <<>>
            /\ k < Len(emitted[c]) => ~RoundRaises(view[c], fs[c][k])
        /\ fpc[c] = "raised" =>
            \/ /\ Len(emitted[c]) < WORLD_SIZE
               /\ fs[c][Len(emitted[c]) + 1].result.kind # "Response"
            \/ /\ Len(emitted[c]) >= 1
               /\ RoundRaises(view[c], fs[c][Len(emitted[c])])

C1_Witness ==
    \E c \in Calls :
        /\ fpc[c] = "done"
        /\ overtaken[c]
        /\ WORLD_SIZE = MaxWorld
        /\ Len(emitted[c]) = WORLD_SIZE
        /\ emitted[c][1].failed # emitted[c][WORLD_SIZE].failed

\* C2: a transport failure of the request to one rank is never raised to
\* the consumer of the result: once the rendering has ended, every rank has
\* its entry.
C2_FailureIsData ==
    \A c \in Calls :
        \A k \in 1 .. Len(fs[c]) :
            fs[c][k].result = ConnectionError =>
                ~(fpc[c] = "raised" /\ Len(emitted[c]) = k - 1)

\* C3: once the requests are submitted there is one future per rank, each
\* for that rank's target, none is ever cancelled, requests.post runs at
\* most once for each, and when fetch_all has returned it has run exactly
\* once for each and finished, whatever the other requests ended with.
C3_EveryRankOnce ==
    \A c \in Calls :
        /\ fpc[c] \in {"idle", "resolve"} => fs[c] = <<>>
        /\ fpc[c] \notin {"idle", "resolve"} =>
            /\ Len(fs[c]) = WORLD_SIZE
            /\ \A k \in 1 .. WORLD_SIZE :
                /\ fs[c][k].url = addrs[c][k]
                /\ fs[c][k].state # "CANCELLED"
                /\ fs[c][k].posts = IF fs[c][k].state = "PENDING" THEN 0 ELSE 1
                /\ Returned(c) => fs[c][k].state = "FINISHED" /\ fs[c][k].posts = 1

C3_Witness ==
    \E c \in Calls :
        /\ Returned(c)
        /\ WORLD_SIZE = MaxWorld
        /\ fs[c][1].result = ConnectionError
        /\ \A k \in 2 .. WORLD_SIZE : fs[c][k].result.kind = "Response"

\* C4: a response with any status code is rendered as that rank's entry
\* with its status (the failure line exactly when the status is not 200) and,
\* in the views that show the text as it is, its text; in those views a
\* response never ends the rendering, so the other ranks keep their entries.
C4_StatusIsEntry ==
    \A c \in Calls : Returned(c) =>
        /\ \A k \in 1 .. Len(emitted[c]) :
            LET resp == fs[c][k].result IN
            /\ resp.kind = "Response"
            /\ emitted[c][k].failed # <<>> <=> resp.status_code # 200
            /\ emitted[c][k].failed # <<>> =>
                   emitted[c][k].failed = <<resp.status_code>>
            /\ view[c] \notin JsonViews => emitted[c][k].text = resp.text
        /\ view[c] \notin JsonViews /\ fpc[c] = "raised" =>
            /\ Len(emitted[c]) < WORLD_SIZE
            /\ fs[c][Len(emitted[c]) + 1].result.kind # "Response"
        /\ view[c] \notin JsonViews /\ fpc[c] = "done" =>
            Len(emitted[c]) = WORLD_SIZE

C4_Witness ==
    \E c \in Calls :
        /\ fpc[c] = "done"
        /\ view[c] = "stacks"
        /\ WORLD_SIZE = MaxWorld
        /\ emitted[c][1].failed = <<404>>
        /\ emitted[c][1].text = <<"Not Found">>
        /\ \A k \in 2 .. WORLD_SIZE :
            emitted[c][k].failed = <<>> /\ emitted[c][k].text = <<"{}">>

\* C5: at no point are more than max_workers requests of one fetch_all call
\* in flight, nor more than there are targets.
C5_PoolBound ==
    \A c \in Calls :
        /\ Cardinality(Running(fs[c])) <= max_workers
        /\ Cardinality(Running(fs[c])) <= WORLD_SIZE

C5_Witness ==
    \E c \in Calls :
        /\ WORLD_SIZE > max_workers
        /\ Cardinality(Running(fs[c])) = max_workers
        /\ Pending(fs[c]) # {}

\* C6: no request exists, queued or sent, before every key rank0 ..
\* rank(WORLD_SIZE-1) is in the store, and the addresses resolved are in the
\* order of the keys: the k-th is one published by rank k.
C6_ResolveBeforeDispatch ==
    \A c \in Calls :
        /\ (\E r \in Ranks : ~HasKey(r)) => fs[c] = <<>> /\ addrs[c] = <<>>
        /\ fpc[c] \notin {"idle", "resolve"} =>
            /\ Len(addrs[c]) = WORLD_SIZE
            /\ Len(fs[c]) = WORLD_SIZE
            /\ \A r \in Ranks :
                /\ HasKey(r)
                /\ \E i \in 1 .. Len(published[r]) :
                    addrs[c][r + 1] =
                        published[r][i] \o <<"/handler/">> \o Endpoint(view[c])

\* A request waits in multi_get with a partial address table.
C6_Witness ==
    \E c \in Calls :
        /\ fpc[c] = "resolve"
        /\ WORLD_SIZE = MaxWorld
        /\ HasKey(0) /\ HasKey(1)
        /\ ~HasKey(WORLD_SIZE - 1)

\* C7: one address per rank is ever published and the value under key
\* rank<r> stays the first one published.
C7_FirstWriteWins ==
    \A r \in Ranks :
        /\ Len(published[r]) <= 1
        /\ HasKey(r) => Decode(Stored(r)) = published[r][1]

\* C8: the store holds for rank r the address rank r published last, and
\* the address fetch_all resolves for rank r is that address, the target
\* being it followed by /handler/ and the endpoint with its query suffix.
C8_RoundTrip ==
    /\ [](\A r \in Ranks :
            /\ HasKey(r) <=> published[r] # <<>>
            /\ HasKey(r) => Stored(r) = Encode(Last(published[r])))
    /\ [][\A c \in Calls : fpc[c] = "resolve" /\ fpc'[c] = "pool" =>
            /\ Len(addrs'[c]) = WORLD_SIZE
            /\ \A r \in Ranks :
                addrs'[c][r + 1] =
                    Last(published[r]) \o <<"/handler/">> \o Endpoint(view[c])]_vars

C8_Witness ==
    \E c \in Calls :
        /\ fpc[c] = "pool"
        /\ published[0] = <<WorkerAddress(0, 1), WorkerAddress(0, 2)>>
        /\ addrs[c][1] = <<"http://", "node", 0, ":", 2, "/handler/",
                            "dump_nccl_trace_json", "?onlyactive=true">>

\* C9: every address a rank has published names a port one of its servers
\* had bound before, the i-th publish the i-th bind, so a key exists only
\* after a bind and a failed bind publishes nothing.
C9_PublishAfterBind ==
    \A r \in Ranks :
        /\ Len(published[r]) <= Len(bound[r])
        /\ Len(bound[r]) <= ncalls[r]
        /\ \A i \in 1 .. Len(published[r]) :
            published[r][i] = WorkerAddress(r, bound[r][i])
        /\ HasKey(r) =>
            /\ bound[r] # <<>>
            /\ \E i \in 1 .. Len(bound[r]) :
                Decode(Stored(r)) = WorkerAddress(r, bound[r][i])
        /\ Len(published[r]) + (IF ppc[r] = "bound" THEN 1 ELSE 0) = Len(bound[r])

\* Rank 1's only call failed to bind; rank 0 published its second server.
C9_Witness ==
    /\ WORLD_SIZE >= 2
    /\ ncalls[1] = 1 /\ ppc[1] = "ready" /\ bound[1] = <<>>
    /\ ~HasKey(1)
    /\ HasKey(0)
    /\ Decode(Stored(0)) = WorkerAddress(0, 2)

\* C10: when fetch_all has returned, and so whenever an entry is rendered,
\* every request of the call has finished: none is queued or in flight.
C10_JoinAll ==
    \A c \in Calls : Returned(c) =>
        /\ Len(fs[c]) = WORLD_SIZE
        /\ Pending(fs[c]) = {}
        /\ Running(fs[c]) = {}

C10_Witness ==
    \E c \in Calls :
        /\ fpc[c] = "render"
        /\ overtaken[c]
        /\ Len(emitted[c]) = 1
        /\ WORLD_SIZE = MaxWorld

\* C11: a render pass over a partial result (some ranks answered 200, some
\* answered another status with any body, some could not be reached) does
\* not stop at a failed rank: in each of the four views, once the pass has
\* ended every rank 0 .. WORLD_SIZE-1 has its section.
C11_PartialRenders ==
    \A c \in Calls :
        /\ fpc[c] # "raised"
        /\ fpc[c] = "done" =>
            /\ Len(emitted[c]) = WORLD_SIZE
            /\ \A k \in 1 .. WORLD_SIZE : emitted[c][k].rank = k - 1

\* C12: as long as the key of some rank below WORLD_SIZE is not in the store
\* (and a key, once written, stays), no fetch_all call has left address
\* resolution: it has not returned, not raised, built no target and
\* dispatched no request, to the ranks that did publish either.
C12_BlocksWithoutKey ==
    \A c \in Calls :
        (\E r \in Ranks : ~HasKey(r)) =>
            /\ fpc[c] \in {"idle", "resolve"}
            /\ addrs[c] = <<>>
            /\ fs[c] = <<>>
            /\ emitted[c] = <<>>

\* Rank 1's call of enable_debug_server failed before it published, the
\* other ranks published, and the request waits in multi_get.
C12_Witness ==
    \E c \in Calls :
        /\ WORLD_SIZE = MaxWorld
        /\ fpc[c] = "resolve"
        /\ ncalls[1] >= 1 /\ ppc[1] = "ready" /\ published[1] = <<>>
        /\ \A r \in Ranks \ {1} : HasKey(r)

C14_CoordinatorOnlyRankZero ==
    /\ \A r \in Ranks \ {0} : _p[r] = 0
    /\ _p[0] + (IF ppc[0] = "published" THEN 1 ELSE 0) = Len(published[0])
    /\ Len(published[0]) <= Len(bound[0])
    /\ Len(bound[0]) <= ncalls[0]
    /\ _p[0] > 0 => HasKey(0) /\ _worker_server[0] # <<>>

\* Rank 0 has called twice and started two coordinators; another rank has
\* bound and published and started none.
C14_Witness ==
    /\ _p[0] = 2 /\ ncalls[0] = 2
    /\ \E r \in Ranks \ {0} : published[r] # <<>> /\ ppc[r] = "ready" /\ _p[r] = 0

\* C15: every key in the store is either the unrelated user's key, with the
\* value that user gave it, or the prefixed key rank<r> of a rank r holding
\* the address r published last; a step changes the store only by process
\* r publishing, and then only at r's own prefixed key; and no step of a
\* fan-out changes the store.
C15_OneWriterPerKey ==
    /\ [](UnrelatedKey \in DOMAIN store)
    /\ [](\A k \in DOMAIN store :
            \/ k = UnrelatedKey /\ store[k] = UnrelatedValue
            \/ \E r \in Ranks :
                /\ k = <<"debug_server", "/", "rank", r>>
                /\ published[r] # <<>>
                /\ Decode(store[k]) = Last(published[r]))
    /\ [][store' # store =>
            \E r \in Ranks :
                /\ ppc[r] = "bound" /\ ppc'[r] # "bound"
                /\ \A q \in Ranks \ {r} : ppc'[q] = ppc[q]
                /\ \A k \in DOMAIN store' \ {<<"debug_server", "/", "rank", r>>} :
                    k \in DOMAIN store /\ store'[k] = store[k]]_vars
    /\ [][callVars' # callVars => store' = store]_vars

\* Every rank of a job of two or more has published, rank 0 twice; a
\* fan-out has run to its end; the unrelated key still has its value.
C15_Witness ==
    \E c \in Calls :
        /\ WORLD_SIZE >= 2
        /\ fpc[c] = "done"
        /\ \A r \in Ranks : HasKey(r)
        /\ Len(published[0]) = 2
        /\ store[UnrelatedKey] = UnrelatedValue
        /\ Cardinality(DOMAIN store) = WORLD_SIZE + 1

\* C16: a process that has bound a worker endpoint has 'torch_profile' in
\* its registry, and from then on no step writes its registry.
C16_RegisteredBeforeBind ==
    /\ [](\A r \in Ranks :
            bound[r] # <<>> => "torch_profile" \in registry[r])
    /\ [][\A r \in Ranks :
            bound[r] # <<>> => registry'[r] = registry[r]]_vars

\* A process has imported the module, then bound and published its
\* endpoint.
C16_Witness ==
    \E r \in Ranks :
        /\ bound[r] # <<>>
        /\ published[r] # <<>>
        /\ registry[r] = {"torch_profile"}

\* C17: a process whose environment has a variable missing or not an
\* integer never gets past the import: it makes no call of
\* enable_debug_server, binds no endpoint, publishes no address, has no key
\* in the store and starts no coordinator.
C17_BadEnvironmentIsFatal ==
    \A r \in Ranks :
        environ[r] \in BadEnvs =>
            /\ ppc[r] \in {"new", "registered", "importfailed"}
            /\ ncalls[r] = 0
            /\ _worker_server[r] = <<>>
            /\ bound[r] = <<>>
            /\ published[r] = <<>>
            /\ ~HasKey(r)
            /\ _p[r] = 0

\* Rank 0 has RANK set to something int() rejects and its import has
\* failed, while another process has imported, bound and published.
C17_Witness ==
    /\ environ[0] = [GoodEnv EXCEPT ![3] = "malformed"]
    /\ ppc[0] = "importfailed"
    /\ \E r \in Ranks \ {0} : published[r] # <<>>

\* C18: when every worker answers or fails to connect, the waiting call of
\* fetch_all eventually returns, though the job has more ranks than the
\* pool has threads and its last rank publishes late; when one worker never
\* answers, the call never returns.
C18_Termination ==
    /\ (hung = {}) ~> (\A c \in Calls : Returned(c))
    /\ [](hung # {} => \A c \in Calls : ~Returned(c))

\* fetch_all has returned for a job of more than max_workers ranks whose
\* last rank published after the call had started.
C18_Witness ==
    \E c \in Calls :
        /\ hung = {}
        /\ Returned(c)
        /\ Len(fs[c]) > max_workers
        /\ published[WORLD_SIZE - 1] # <<>>
        /\ \A k \in 1 .. Len(fs[c]) : fs[c][k].state = "FINISHED"

\* All the requests the coordinator has in flight.
C19_InFlight == Sum([c \in Calls |-> Cardinality(Running(fs[c]))], Calls)

\* C19: of two calls of fetch_all running at once, each has at most
\* max_workers requests in flight and posts each of its targets at most
\* once; each one's k-th future and k-th rendered entry are for rank k - 1
\* and its own endpoint; a call with a queued item and fewer than
\* max_workers requests of its own in flight can dispatch whatever the other
\* call has in flight; and a step of one call leaves the other call's
\* targets, futures and output as they were.
C19_CallsIsolated ==
    /\ [](\A c \in Calls :
            LET own == IF c = 1 THEN <<"dump_traceback">>
                       ELSE <<"dump_nccl_trace_json", "?onlyactive=true">> IN
            /\ Cardinality(Running(fs[c])) <= max_workers
            /\ \A k \in 1 .. Len(fs[c]) :
                /\ fs[c][k].url =
                    <<"http://", "node", k - 1, ":", 1, "/handler/">> \o own
                /\ fs[c][k].posts <= 1
            /\ Returned(c) =>
                /\ Len(fs[c]) = WORLD_SIZE
                /\ \A k \in 1 .. Len(fs[c]) :
                    fs[c][k].state = "FINISHED" /\ fs[c][k].posts = 1
            /\ \A k \in 1 .. Len(emitted[c]) :
                /\ emitted[c][k].rank = k - 1
                /\ emitted[c][k].addr = fs[c][k].url
            /\ (/\ fpc[c] = "pool"
                /\ Pending(fs[c]) # {}
                /\ Cardinality(Running(fs[c])) < max_workers)
                    => ENABLED Dequeue(c))
    /\ [][\A c \in Calls :
            <<fpc[c], addrs[c], fs[c], emitted[c]>>' #
                <<fpc[c], addrs[c], fs[c], emitted[c]>> =>
                    \A d \in Calls \ {c} :
                        <<fpc[d], view[d], addrs[d], fs[d], emitted[d]>>' =
                            <<fpc[d], view[d], addrs[d], fs[d], emitted[d]>>]_vars

\* Both calls are in their pools and together have more requests in flight
\* than one pool has threads.
C19_Witness ==
    /\ clients = 2
    /\ \A c \in Calls : fpc[c] = "pool"
    /\ C19_InFlight > max_workers

====
